---------------------------- MODULE Spec2Model ----------------------------
(***************************************************************************)
(* Model of the track JSON encoders (common/djangoapps/track/utils.py) and *)
(* of the course-metadata formatter contract pinned by                     *)
(* xmodule/tests/test_course_metadata_utils.py.                            *)
(*                                                                         *)
(* Python 2 values are tagged records:                                     *)
(*   [t |-> "str",  b |-> <<bytes>>]        byte string, bytes in 0..255   *)
(*   [t |-> "unicode", c |-> <<code points>>]  decoded text                *)
(*   [t |-> "int", n |-> i], [t |-> "none"], [t |-> "object"]              *)
(*   [t |-> "datetime", ...], [t |-> "date", ...]                          *)
(*   [t |-> "list", items |-> <<values>>]                                  *)
(*   [t |-> "dict", items |-> <<[k |-> key, v |-> value], ...>>]           *)
(* A dict's items are kept in the dict's iteration order.  Text that the   *)
(* program returns is a sequence of one-character strings.                 *)
(***************************************************************************)
EXTENDS Integers, Sequences, FiniteSets, TLC

VARIABLES obj, orig, result, calls, threads

vars == <<obj, orig, result, calls, threads>>

(***************************************************************************)
(* Bounds of the model.                                                    *)
(***************************************************************************)
\* longest byte string drawn as an input
MaxStrLen == 3
\* number of encoder calls made one after the other on the same structure
MaxCalls == 2

(***************************************************************************)
(* Characters.                                                             *)
(***************************************************************************)
Digit == <<"0", "1", "2", "3", "4", "5", "6", "7", "8", "9">>

HexDigit == <<"0", "1", "2", "3", "4", "5", "6", "7", "8", "9",
              "a", "b", "c", "d", "e", "f">>

\* the printable ASCII characters, code points 32..126, in order (code point
\* 96 is spelled out: the character cannot be written in a string literal)
Printable ==
  <<" ", "!", "\"", "#", "$", "%", "&", "'", "(", ")", "*", "+", ",", "-",
    ".", "/", "0", "1", "2", "3", "4", "5", "6", "7", "8", "9", ":", ";",
    "<", "=", ">", "?", "@", "A", "B", "C", "D", "E", "F", "G", "H", "I",
    "J", "K", "L", "M", "N", "O", "P", "Q", "R", "S", "T", "U", "V", "W",
    "X", "Y", "Z", "[", "\\", "]", "^", "_", "BACKQUOTE", "a", "b", "c", "d", "e",
    "f", "g", "h", "i", "j", "k", "l", "m", "n", "o", "p", "q", "r", "s",
    "t", "u", "v", "w", "x", "y", "z", "{", "|", "}", "~">>

\* chr(n) for a printable ASCII code point
Chr(n) == Printable[n - 31]

\* ord(c) for a printable ASCII character
Ord(c) == 31 + CHOOSE i \in 1..Len(Printable) : Printable[i] = c

\* the characters of a printable ASCII code point sequence
Chars(cps) == [i \in 1..Len(cps) |-> Chr(cps[i])]

\* the code points of a sequence of printable ASCII characters
CodePoints(cs) == [i \in 1..Len(cs) |-> Ord(cs[i])]

RECURSIVE Flatten(_)
\* ''.join(chunks)
Flatten(chunks) ==
  IF chunks = <<>> THEN <<>> ELSE Head(chunks) \o Flatten(Tail(chunks))

\* '%02d' % n
Pad2(n) == <<Digit[((n \div 10) % 10) + 1], Digit[(n % 10) + 1]>>

\* '%04d' % n
Pad4(n) == Pad2(n \div 100) \o Pad2(n % 100)

\* '%06d' % n
Pad6(n) == Pad2(n \div 10000) \o Pad4(n % 10000)

\* '%04x' % n
Hex4(n) ==
  <<HexDigit[((n \div 4096) % 16) + 1], HexDigit[((n \div 256) % 16) + 1],
    HexDigit[((n \div 16) % 16) + 1], HexDigit[(n % 16) + 1]>>

(***************************************************************************)
(* Codecs (the Python 2.7 'utf8' and 'latin1' codecs).                     *)
(***************************************************************************)
\* a UTF-8 continuation byte, 0x80..0xBF
IsCont(b) == b >= 128 /\ b <= 191

\* the length of the UTF-8 sequence a lead byte opens, 0 for a byte that
\* opens none (0x80..0xC1 and 0xF5..0xFF)
Utf8CodeLength(b) ==
  IF b <= 127 THEN 1
  ELSE IF b >= 194 /\ b <= 223 THEN 2
  ELSE IF b >= 224 /\ b <= 239 THEN 3
  ELSE IF b >= 240 /\ b <= 244 THEN 4
  ELSE 0

\* whether the first n bytes of s are one well-formed UTF-8 sequence for the
\* Python 2.7 decoder: continuation bytes in place, no overlong form, at most
\* U+10FFFF (encoded surrogates are accepted by Python 2)
Utf8SeqOk(s, n) ==
  /\ n >= 1
  /\ Len(s) >= n
  /\ \A i \in 2..n : IsCont(s[i])
  /\ (n = 3 /\ s[1] = 224) => s[2] >= 160
  /\ (n = 4 /\ s[1] = 240) => s[2] >= 144
  /\ (n = 4 /\ s[1] = 244) => s[2] <= 143

\* the code point of the well-formed sequence of n bytes opening s
Utf8CodePoint(s, n) ==
  IF n = 1 THEN s[1]
  ELSE IF n = 2 THEN (s[1] - 192) * 64 + (s[2] - 128)
  ELSE IF n = 3 THEN (s[1] - 224) * 4096 + (s[2] - 128) * 64 + (s[3] - 128)
  ELSE (s[1] - 240) * 262144 + (s[2] - 128) * 4096 + (s[3] - 128) * 64
       + (s[4] - 128)

RECURSIVE Utf8Valid(_)
\* whether s.decode('utf8') returns (it raises UnicodeDecodeError otherwise)
Utf8Valid(s) ==
  IF s = <<>> THEN TRUE
  ELSE LET n == Utf8CodeLength(s[1])
       IN  /\ Utf8SeqOk(s, n)
           /\ Utf8Valid(SubSeq(s, n + 1, Len(s)))

RECURSIVE Utf8Decode(_)
\* s.decode('utf8') for a byte string that decodes: its code points
Utf8Decode(s) ==
  IF s = <<>> THEN <<>>
  ELSE LET n == Utf8CodeLength(s[1])
       IN  <<Utf8CodePoint(s, n)>> \o Utf8Decode(SubSeq(s, n + 1, Len(s)))

\* s.decode('latin1'): every byte is the code point of the same number
Latin1Decode(s) == [i \in 1..Len(s) |-> s[i]]

\* whether every code point of a text is ASCII, so that the implicit
\* text.encode('ascii') of Python 2 returns
IsAscii(cps) == \A i \in 1..Len(cps) : cps[i] <= 127

(***************************************************************************)
(* json.encoder.encode_basestring_ascii                                    *)
(***************************************************************************)
\* the replacement of one code point (ESCAPE_ASCII, ESCAPE_DCT and the
\* \uXXXX forms, a surrogate pair above U+FFFF)
EscapeAscii(cp) ==
  IF cp = 34 THEN <<"\\", "\"">>
  ELSE IF cp = 92 THEN <<"\\", "\\">>
  ELSE IF cp = 10 THEN <<"\\", "n">>
  ELSE IF cp = 13 THEN <<"\\", "r">>
  ELSE IF cp = 9 THEN <<"\\", "t">>
  ELSE IF cp = 12 THEN <<"\\", "f">>
  ELSE IF cp = 8 THEN <<"\\", "b">>
  ELSE IF cp >= 32 /\ cp <= 126 THEN <<Chr(cp)>>
  ELSE IF cp < 65536 THEN <<"\\", "u">> \o Hex4(cp)
  ELSE LET v == cp - 65536
       IN  <<"\\", "u">> \o Hex4(55296 + ((v \div 1024) % 1024))
           \o <<"\\", "u">> \o Hex4(56320 + (v % 1024))

\* the quoted JSON form of a text given by its code points
QuoteText(cps) ==
  <<"\"">> \o Flatten([i \in 1..Len(cps) |-> EscapeAscii(cps[i])]) \o <<"\"">>

\* encode_basestring_ascii(s): a byte string is decoded as UTF-8 first, which
\* raises UnicodeDecodeError when its bytes are not UTF-8
EncodeBasestringAscii(s) ==
  IF s.t = "str"
  THEN IF Utf8Valid(s.b)
       THEN [ok |-> TRUE, text |-> QuoteText(Utf8Decode(s.b)), err |-> ""]
       ELSE [ok |-> FALSE, text |-> <<>>, err |-> "UnicodeDecodeError"]
  ELSE [ok |-> TRUE, text |-> QuoteText(s.c), err |-> ""]

(***************************************************************************)
(* datetime.datetime and datetime.date                                     *)
(*   [t |-> "datetime", year, month, day, hour, minute, second,            *)
(*    microsecond, aware, off]: aware is whether tzinfo is set, off is     *)
(*    utcoffset() in minutes (0 for a naive value)                         *)
(*   [t |-> "date", year, month, day]                                      *)
(***************************************************************************)
\* datetime.MINYEAR
MINYEAR == 1
\* datetime.MAXYEAR
MAXYEAR == 9999

IsLeap(y) == (y % 4 = 0) /\ ((y % 100 # 0) \/ (y % 400 = 0))

DaysInMonth(y, m) ==
  IF m = 2 THEN (IF IsLeap(y) THEN 29 ELSE 28)
  ELSE IF m \in {4, 6, 9, 11} THEN 30 ELSE 31

\* days of the years before year y
DaysBeforeYear(y) ==
  LET p == y - 1 IN p * 365 + (p \div 4) - (p \div 100) + (p \div 400)

RECURSIVE DaysBeforeMonth(_, _)
\* days of year y before the first of month m
DaysBeforeMonth(y, m) ==
  IF m = 1 THEN 0 ELSE DaysBeforeMonth(y, m - 1) + DaysInMonth(y, m - 1)

\* date.toordinal(): 1 for 0001-01-01
Ymd2Ord(y, m, d) == DaysBeforeYear(y) + DaysBeforeMonth(y, m) + d

\* date.fromordinal(n), by the 400/100/4/1-year cycles
Ord2Ymd(ordinal) ==
  LET n0   == ordinal - 1
      n400 == n0 \div 146097
      r400 == n0 % 146097
      n100 == r400 \div 36524
      r100 == r400 % 36524
      n4   == r100 \div 1461
      r4   == r100 % 1461
      n1   == r4 \div 365
      r1   == r4 % 365
      y    == n400 * 400 + 1 + n100 * 100 + n4 * 4 + n1
  IN  IF n1 = 4 \/ n100 = 4
      THEN [year |-> y - 1, month |-> 12, day |-> 31]
      ELSE LET m == CHOOSE k \in 1..12 :
                      /\ DaysBeforeMonth(y, k) <= r1
                      /\ r1 < DaysBeforeMonth(y, k) + DaysInMonth(y, k)
           IN  [year |-> y, month |-> m, day |-> r1 - DaysBeforeMonth(y, m) + 1]

\* the largest ordinal, 9999-12-31
MaxOrdinal == Ymd2Ord(MAXYEAR, 12, 31)

\* pytz UTC.localize(obj): the same wall-clock fields, tzinfo set to UTC
UTCLocalize(d) == [d EXCEPT !.aware = TRUE, !.off = 0]

\* obj.replace(tzinfo=UTC) in the place of obj.astimezone(UTC): the wall
\* clock kept, the offset dropped
ReplaceTzinfoUTC(d) == [ok |-> TRUE, dt |-> [d EXCEPT !.off = 0], err |-> ""]

\* obj.astimezone(UTC): the offset is subtracted from the wall clock and the
\* date carried; a date outside MINYEAR..MAXYEAR raises OverflowError
AsTimezoneUTC(d) ==
  LET total == d.hour * 60 + d.minute - d.off
      carry == total \div 1440
      rest  == total % 1440
      ord   == Ymd2Ord(d.year, d.month, d.day) + carry
  IN  IF ord < 1 \/ ord > MaxOrdinal
      THEN [ok |-> FALSE, dt |-> d, err |-> "OverflowError"]
      ELSE LET ymd == Ord2Ymd(ord)
           IN  [ok |-> TRUE,
                dt |-> [d EXCEPT !.year = ymd.year, !.month = ymd.month,
                                 !.day = ymd.day, !.hour = rest \div 60,
                                 !.minute = rest % 60, !.off = 0],
                err |-> ""]

\* date.isoformat(): YYYY-MM-DD
IsoFormatDate(d) ==
  Pad4(d.year) \o <<"-">> \o Pad2(d.month) \o <<"-">> \o Pad2(d.day)

\* the +HH:MM or -HH:MM of an offset in minutes
IsoOffset(off) ==
  LET a == IF off < 0 THEN 0 - off ELSE off
  IN  <<IF off < 0 THEN "-" ELSE "+">> \o Pad2(a \div 60) \o <<":">>
      \o Pad2(a % 60)

\* datetime.isoformat(): YYYY-MM-DDTHH:MM:SS[.ffffff][+HH:MM]
IsoFormatDateTime(d) ==
  IsoFormatDate(d) \o <<"T">> \o Pad2(d.hour) \o <<":">> \o Pad2(d.minute)
  \o <<":">> \o Pad2(d.second)
  \o (IF d.microsecond # 0 THEN <<".">> \o Pad6(d.microsecond) ELSE <<>>)
  \o (IF d.aware THEN IsoOffset(d.off) ELSE <<>>)

\* DateTimeJSONEncoder.default(obj)
Default(o) ==
  IF o.t = "datetime"
  THEN IF ~o.aware
       THEN [ok |-> TRUE, text |-> IsoFormatDateTime(UTCLocalize(o)), err |-> ""]
       ELSE LET c == AsTimezoneUTC(o)
            IN  IF c.ok
                THEN [ok |-> TRUE, text |-> IsoFormatDateTime(c.dt), err |-> ""]
                ELSE [ok |-> FALSE, text |-> <<>>, err |-> c.err]
  ELSE IF o.t = "date"
  THEN [ok |-> TRUE, text |-> IsoFormatDate(o), err |-> ""]
  ELSE [ok |-> FALSE, text |-> <<>>, err |-> "TypeError"]

(***************************************************************************)
(* json.JSONEncoder.encode with DateTimeJSONEncoder.default as its hook    *)
(* (the encoder's defaults: ensure_ascii, separators ', ' and ': ').       *)
(* An outcome is [ok, text, err]: the text returned, or the error raised.  *)
(***************************************************************************)
Returned(text) == [ok |-> TRUE, text |-> text, err |-> ""]

Raised(err) == [ok |-> FALSE, text |-> <<>>, err |-> err]

RECURSIVE NatStr(_)
\* str(n) for n >= 0
NatStr(n) ==
  IF n < 10 THEN <<Digit[n + 1]>> ELSE NatStr(n \div 10) \o <<Digit[(n % 10) + 1]>>

\* str(n) for an int
IntStr(n) == IF n < 0 THEN <<"-">> \o NatStr(0 - n) ELSE NatStr(n)

RECURSIVE JsonEncode(_)
RECURSIVE JsonList(_, _)
RECURSIVE JsonDict(_, _)

\* the chunks of the elements i.. of a list, each after its separator
JsonList(items, i) ==
  IF i > Len(items) THEN Returned(<<>>)
  ELSE LET e == JsonEncode(items[i])
       IN  IF ~e.ok THEN e
           ELSE LET r == JsonList(items, i + 1)
                IN  IF ~r.ok THEN r
                    ELSE Returned((IF i > 1 THEN <<",", " ">> ELSE <<>>)
                                  \o e.text \o r.text)

\* the chunks of the entries i.. of a dict: key, ': ', value.  A string key
\* is written as any string (a byte string key is decoded as UTF-8); an int
\* key is first made the string of its digits, str(key), and a None key
\* 'null'; a key of another type is a TypeError (skipkeys is false)
JsonDict(items, i) ==
  IF i > Len(items) THEN Returned(<<>>)
  ELSE LET key == IF items[i].k.t = "int"
                  THEN [t |-> "str", b |-> CodePoints(IntStr(items[i].k.n))]
                  ELSE IF items[i].k.t = "none"
                  THEN [t |-> "str", b |-> CodePoints(<<"n", "u", "l", "l">>)]
                  ELSE items[i].k
           k == IF key.t \in {"str", "unicode"}
                THEN EncodeBasestringAscii(key)
                ELSE Raised("TypeError")
       IN  IF ~k.ok THEN k
           ELSE LET v == JsonEncode(items[i].v)
                IN  IF ~v.ok THEN v
                    ELSE LET r == JsonDict(items, i + 1)
                         IN  IF ~r.ok THEN r
                             ELSE Returned((IF i > 1 THEN <<",", " ">> ELSE <<>>)
                                           \o k.text \o <<":", " ">> \o v.text
                                           \o r.text)

\* super(LatinJSONEncoder, self).encode(obj), which is
\* DateTimeJSONEncoder().encode(obj): JSONEncoder.encode with the default hook
JsonEncode(o) ==
  IF o.t \in {"str", "unicode"} THEN EncodeBasestringAscii(o)
  ELSE IF o.t = "none" THEN Returned(<<"n", "u", "l", "l">>)
  ELSE IF o.t = "int" THEN Returned(IntStr(o.n))
  ELSE IF o.t = "list"
  THEN LET r == JsonList(o.items, 1)
       IN  IF r.ok THEN Returned(<<"[">> \o r.text \o <<"]">>) ELSE r
  ELSE IF o.t = "dict"
  THEN LET r == JsonDict(o.items, 1)
       IN  IF r.ok THEN Returned(<<"{">> \o r.text \o <<"}">>) ELSE r
  ELSE LET d == Default(o)
       IN  IF d.ok THEN Returned(QuoteText(CodePoints(d.text))) ELSE d

(***************************************************************************)
(* LatinJSONEncoder                                                        *)
(***************************************************************************)
\* Redecode with the bytes that are not ASCII dropped: what
\* obj[key].decode('utf8', 'ignore') would store for Latin-1 bytes
RedecodeIgnoringErrors(v) ==
  [t |-> "unicode", c |-> SelectSeq(v.b, LAMBDA x : x <= 127)]

\* the except branch of iterate_dictionary: obj[key].decode('latin1')
Redecode(v) == [t |-> "unicode", c |-> Latin1Decode(v.b)]

\* iterate_dictionary without the recursive call: nested mappings unwalked
IterateDictionaryTopLevelOnly(o) ==
  IF o.t # "dict" THEN [ok |-> FALSE, obj |-> o, err |-> "AttributeError"]
  ELSE [ok  |-> TRUE,
        obj |-> [o EXCEPT !.items =
                   [i \in 1..Len(o.items) |->
                      LET value == o.items[i].v
                      IN  [k |-> o.items[i].k,
                           v |-> IF value.t = "str" /\ ~Utf8Valid(value.b)
                                 THEN Redecode(value)
                                 ELSE value]]],
        err |-> ""]

RECURSIVE IterateDictionaryAlwaysLatin1(_)
\* iterate_dictionary without the UTF-8 test: every byte-string value is
\* re-decoded as Latin-1
IterateDictionaryAlwaysLatin1(o) ==
  IF o.t # "dict" THEN [ok |-> FALSE, obj |-> o, err |-> "AttributeError"]
  ELSE [ok  |-> TRUE,
        obj |-> [o EXCEPT !.items =
                   [i \in 1..Len(o.items) |->
                      LET value == o.items[i].v
                      IN  [k |-> o.items[i].k,
                           v |-> IF value.t = "dict"
                                 THEN IterateDictionaryAlwaysLatin1(value).obj
                                 ELSE IF value.t = "str"
                                 THEN Redecode(value)
                                 ELSE value]]],
        err |-> ""]

RECURSIVE RepairEverywhere(_)
\* the repair applied to sequences as well as to mappings
RepairEverywhere(v) ==
  IF v.t = "dict"
  THEN [v EXCEPT !.items = [i \in 1..Len(v.items) |->
                              [k |-> v.items[i].k,
                               v |-> RepairEverywhere(v.items[i].v)]]]
  ELSE IF v.t = "list"
  THEN [v EXCEPT !.items = [i \in 1..Len(v.items) |->
                              RepairEverywhere(v.items[i])]]
  ELSE IF v.t = "str" /\ ~Utf8Valid(v.b) THEN Redecode(v)
  ELSE v

\* iterate_dictionary walking the sequences too
IterateDictionaryWalkingLists(o) ==
  IF o.t # "dict" THEN [ok |-> FALSE, obj |-> o, err |-> "AttributeError"]
  ELSE [ok |-> TRUE, obj |-> RepairEverywhere(o), err |-> ""]

RECURSIVE IterateDictionaryAnyString(_)
\* iterate_dictionary testing isinstance(value, basestring): a text value is
\* validated too, and the decode of a text that is not ASCII raises
\* UnicodeEncodeError
IterateDictionaryAnyString(o) ==
  IF o.t # "dict" THEN [ok |-> FALSE, obj |-> o, err |-> "AttributeError"]
  ELSE IF \E i \in 1..Len(o.items) :
            LET value == o.items[i].v
            IN  \/ value.t = "unicode" /\ ~IsAscii(value.c)
                \/ value.t = "dict" /\ ~IterateDictionaryAnyString(value).ok
  THEN [ok |-> FALSE, obj |-> o, err |-> "UnicodeEncodeError"]
  ELSE [ok  |-> TRUE,
        obj |-> [o EXCEPT !.items =
                   [i \in 1..Len(o.items) |->
                      LET value == o.items[i].v
                      IN  [k |-> o.items[i].k,
                           v |-> IF value.t = "dict"
                                 THEN IterateDictionaryAnyString(value).obj
                                 ELSE IF value.t = "str" /\ ~Utf8Valid(value.b)
                                 THEN Redecode(value)
                                 ELSE value]]],
        err |-> ""]

RECURSIVE IterateDictionary(_)
\* iterate_dictionary(obj): [ok, obj, err], obj being the structure as the
\* call leaves it (the walk stores into the caller's mappings).  A value
\* that is no mapping has no iteritems: AttributeError.  A dict value is
\* walked in turn; a byte-string value that is not UTF-8 is replaced by its
\* Latin-1 decoding; any other value is passed over.
IterateDictionary(o) ==
  IF o.t # "dict" THEN [ok |-> FALSE, obj |-> o, err |-> "AttributeError"]
  ELSE [ok  |-> TRUE,
        obj |-> [o EXCEPT !.items =
                   [i \in 1..Len(o.items) |->
                      LET value == o.items[i].v
                      IN  [k |-> o.items[i].k,
                           v |-> IF value.t = "dict"
                                 THEN IterateDictionary(value).obj
                                 ELSE IF value.t = "str" /\ ~Utf8Valid(value.b)
                                 THEN Redecode(value)
                                 ELSE value]]],
        err |-> ""]

\* LatinJSONEncoder.encode(obj): [ok, text, err, obj], obj being the
\* caller's structure after the call
LatinEncode(o) ==
  LET w == IterateDictionary(o)
  IN  IF ~w.ok THEN [ok |-> FALSE, text |-> <<>>, err |-> w.err, obj |-> w.obj]
      ELSE LET e == JsonEncode(w.obj)
           IN  [ok |-> e.ok, text |-> e.text, err |-> e.err, obj |-> w.obj]

(***************************************************************************)
(* Inputs.                                                                 *)
(***************************************************************************)
\* bytes the input strings are made of: 'A', 0xC3, 0xA9, 0xE9
\* (C3 A9 is UTF-8 for U+00E9, E9 A9 A9 for U+9A69; 0xE9 alone is Latin-1)
ByteAlphabet == {65, 195, 169, 233}

RECURSIVE SeqsUpTo(_, _)
\* the sequences over S of length at most n
SeqsUpTo(S, n) ==
  IF n = 0 THEN {<<>>}
  ELSE LET shorter == SeqsUpTo(S, n - 1)
       IN  shorter \cup {Append(s, x) : s \in shorter, x \in S}

ByteStrings == SeqsUpTo(ByteAlphabet, MaxStrLen)

Str(bytes) == [t |-> "str", b |-> bytes]

Unicode(cps) == [t |-> "unicode", c |-> cps]

PyInt(n) == [t |-> "int", n |-> n]

None == [t |-> "none"]

\* a value json cannot serialize and default does not know
Object == [t |-> "object"]

List(items) == [t |-> "list", items |-> items]

Dict(items) == [t |-> "dict", items |-> items]

Item(k, v) == [k |-> k, v |-> v]

\* the keys 'a', 'b', 'c'
KeyA == Str(<<97>>)
KeyB == Str(<<98>>)
KeyC == Str(<<99>>)

DateTime(y, mo, d, h, mi, s, us, aware, off) ==
  [t |-> "datetime", year |-> y, month |-> mo, day |-> d, hour |-> h,
   minute |-> mi, second |-> s, microsecond |-> us, aware |-> aware,
   off |-> off]

Date(y, mo, d) == [t |-> "date", year |-> y, month |-> mo, day |-> d]

\* the second string of a structure: ASCII, Latin-1 (0xD3), UTF-8 (C3 A9)
SampleStrings == {Str(<<65>>), Str(<<211>>), Str(<<195, 169>>)}

\* 2016-02-29T23:30:00+01:00
SampleDateTime == DateTime(2016, 2, 29, 23, 30, 0, 0, TRUE, 60)

\* the structures handed to the encoders
Structures ==
  LET S1 == {Str(b) : b \in ByteStrings}
  IN  {Dict(<<>>), PyInt(7), None, Object, SampleDateTime, Date(2016, 2, 29),
       List(<<>>)}
      \cup S1
      \cup {Dict(<<Item(KeyA, s)>>) : s \in S1}
      \cup {Dict(<<Item(KeyA, s), Item(KeyB, s2)>>) : s \in S1, s2 \in SampleStrings}
      \cup {Dict(<<Item(KeyA, Dict(<<Item(KeyB, s)>>)), Item(KeyC, s2)>>) :
              s \in S1, s2 \in SampleStrings}
      \cup {Dict(<<Item(KeyA, Dict(<<Item(KeyB, Dict(<<Item(KeyC, s)>>))>>))>>) :
              s \in S1}
      \cup {Dict(<<Item(KeyA, List(<<s>>))>>) : s \in S1}
      \cup {Dict(<<Item(KeyA, List(<<Dict(<<Item(KeyB, s)>>)>>))>>) : s \in S1}
      \cup {Dict(<<Item(s, PyInt(1))>>) : s \in S1}
      \cup {Dict(<<Item(KeyA, s), Item(KeyB, SampleDateTime)>>) : s \in S1}
      \cup {List(<<s>>) : s \in S1}
      \cup {List(<<Dict(<<Item(KeyA, s)>>)>>) : s \in S1}
      \cup {Dict(<<Item(KeyA, Unicode(<<233, 65>>)), Item(KeyB, s)>>) : s \in S1}
      \cup {Dict(<<Item(KeyA, PyInt(7)), Item(KeyB, None), Item(KeyC, s)>>) :
              s \in S1}
      \cup {Dict(<<Item(KeyA, s), Item(KeyB, Object)>>) : s \in S1}
      \cup {Dict(<<Item(k, s)>>) :
              k \in {PyInt(1), PyInt(-7), None, Object}, s \in SampleStrings}

(***************************************************************************)
(* State: obj is the value the caller holds and hands to the encoder, orig *)
(* the value it held when it was built, result the outcome of the last     *)
(* call, calls the calls made so far with their outcomes.  heap and        *)
(* threads belong to the threaded specification.                           *)
(***************************************************************************)
NoResult == [ok |-> FALSE, text |-> <<>>, err |-> "not called"]

Init ==
  /\ obj \in Structures
  /\ orig = obj
  /\ result = NoResult
  /\ calls = <<>>
  /\ threads = <<>>

\* DateTimeJSONEncoder().encode(obj)
CallEncode ==
  /\ Len(calls) < MaxCalls
  /\ LET r == JsonEncode(obj)
     IN  /\ result' = r
         /\ calls' = Append(calls, [op |-> "encode", out |-> r])
  /\ UNCHANGED <<obj, orig, threads>>

\* LatinJSONEncoder().encode(obj)
CallEncodeRepaired ==
  /\ Len(calls) < MaxCalls
  /\ LET r == LatinEncode(obj)
         out == [ok |-> r.ok, text |-> r.text, err |-> r.err]
     IN  /\ obj' = r.obj
         /\ result' = out
         /\ calls' = Append(calls, [op |-> "encodeRepaired", out |-> out])
  /\ UNCHANGED <<orig, threads>>

\* LatinJSONEncoder().iterate_dictionary(obj)
CallIterateDictionary ==
  /\ Len(calls) < MaxCalls
  /\ LET r == IterateDictionary(obj)
         out == [ok |-> r.ok, text |-> <<>>, err |-> r.err]
     IN  /\ obj' = r.obj
         /\ result' = out
         /\ calls' = Append(calls, [op |-> "iterate_dictionary", out |-> out])
  /\ UNCHANGED <<orig, threads>>

Next == CallEncode \/ CallEncodeRepaired \/ CallIterateDictionary

Spec == Init /\ [][Next]_vars

(***************************************************************************)
(* Predicates the properties are stated with.                              *)
(***************************************************************************)
\* a byte string whose bytes are not UTF-8
IsBadStr(v) == v.t = "str" /\ ~Utf8Valid(v.b)

RECURSIVE HasBadStr(_)
\* whether a non-UTF-8 byte string sits anywhere in a value: the value
\* itself, a mapping key or value, an element of a sequence
HasBadStr(v) ==
  IF v.t = "str" THEN IsBadStr(v)
  ELSE IF v.t = "list" THEN \E i \in 1..Len(v.items) : HasBadStr(v.items[i])
  ELSE IF v.t = "dict"
  THEN \E i \in 1..Len(v.items) :
         IsBadStr(v.items[i].k) \/ HasBadStr(v.items[i].v)
  ELSE FALSE

RECURSIVE HasWalkedBadStr(_)
\* whether a non-UTF-8 byte string is a value of the mapping d or of a
\* mapping nested in d through mapping values only
HasWalkedBadStr(d) ==
  \E i \in 1..Len(d.items) :
    LET v == d.items[i].v
    IN  IsBadStr(v) \/ (v.t = "dict" /\ HasWalkedBadStr(v))

RECURSIVE HasUnwalkedBadStr(_)
\* whether a non-UTF-8 byte string of the mapping d sits where the walk does
\* not go: a mapping key, or anywhere inside a sequence
HasUnwalkedBadStr(d) ==
  \E i \in 1..Len(d.items) :
    LET v == d.items[i].v
    IN  \/ IsBadStr(d.items[i].k)
        \/ (v.t = "list" /\ HasBadStr(v))
        \/ (v.t = "dict" /\ HasUnwalkedBadStr(v))

RECURSIVE RepairedFrom(_, _)
\* mapping a is mapping b with every walked byte-string value that is not
\* UTF-8 replaced by the text of the same numbers, every walked byte-string
\* value that is UTF-8 kept
RepairedFrom(b, a) ==
  /\ a.t = "dict"
  /\ Len(a.items) = Len(b.items)
  /\ \A i \in 1..Len(b.items) :
       LET bv == b.items[i].v
           av == a.items[i].v
       IN  IF bv.t = "dict" THEN RepairedFrom(bv, av)
           ELSE IF bv.t = "str"
           THEN IF Utf8Valid(bv.b)
                THEN av = bv
                ELSE /\ av.t = "unicode"
                     /\ Len(av.c) = Len(bv.b)
                     /\ \A n \in 1..Len(bv.b) : av.c[n] = bv.b[n]
           ELSE TRUE

RECURSIVE FrameKept(_, _)
\* mapping a differs from mapping b at most in byte-string values of walked
\* mappings: same keys in the same order, sequences and their contents
\* equal, every value that is no byte string or mapping equal
FrameKept(b, a) ==
  /\ a.t = "dict"
  /\ Len(a.items) = Len(b.items)
  /\ \A i \in 1..Len(b.items) :
       LET bv == b.items[i].v
           av == a.items[i].v
       IN  /\ a.items[i].k = b.items[i].k
           /\ IF bv.t = "dict" THEN FrameKept(bv, av)
              ELSE IF bv.t = "str" THEN av.t \in {"str", "unicode"}
              ELSE av = bv

\* some call made so far walked the structure
Walked == \E i \in 1..Len(calls) : calls[i].op \in {"iterate_dictionary", "encodeRepaired"}

(***************************************************************************)
(* C2: after iterate_dictionary has run on a mapping (directly or as the   *)
(* first step of encodeRepaired), every byte-string value of the mapping   *)
(* and of the mappings nested in it through mapping values is the Latin-1  *)
(* decoding of the same bytes if the bytes were not UTF-8 and is unchanged *)
(* if they were; encodeRepaired serializes the structure so repaired.      *)
(***************************************************************************)
C2_WalkRepairsMappingValues ==
  (Walked /\ orig.t = "dict") =>
    /\ RepairedFrom(orig, obj)
    /\ ~HasWalkedBadStr(obj)
    /\ \A i \in 1..Len(calls) :
         calls[i].op = "encodeRepaired" =>
           calls[i].out = JsonEncode(obj)

\* a walk has run on {'a': {'b': '\xe9'}, 'c': '\xc3\xa9'}: the nested
\* Latin-1 value is now text, the UTF-8 value is as it was
C2_Witness ==
  /\ Len(calls) = 1
  /\ calls[1].op = "iterate_dictionary"
  /\ orig = Dict(<<Item(KeyA, Dict(<<Item(KeyB, Str(<<233>>))>>)),
                   Item(KeyC, Str(<<195, 169>>))>>)
  /\ obj = Dict(<<Item(KeyA, Dict(<<Item(KeyB, Unicode(<<233>>))>>)),
                  Item(KeyC, Str(<<195, 169>>))>>)

(***************************************************************************)
(* C3 as claimed: encodeRepaired never fails with a decode error, wherever *)
(* the non-UTF-8 byte strings of its input sit.                            *)
(***************************************************************************)
C3_NeverDecodeError ==
  \A i \in 1..Len(calls) :
    calls[i].op = "encodeRepaired" => calls[i].out.err # "UnicodeDecodeError"

(***************************************************************************)
(* C3 as amended: encodeRepaired of a mapping whose non-UTF-8 byte strings *)
(* all sit as values of mappings reached through mapping values raises no  *)
(* decode error and leaves no non-UTF-8 byte string in the structure; a    *)
(* non-UTF-8 byte string that is a mapping key or sits inside a sequence   *)
(* is not repaired, and the call fails.                                    *)
(***************************************************************************)
C3_WalkedStringsNeverFail ==
  \A i \in 1..Len(calls) :
    (calls[i].op = "encodeRepaired" /\ orig.t = "dict") =>
      IF HasUnwalkedBadStr(orig)
      THEN ~calls[i].out.ok /\ HasBadStr(obj)
      ELSE calls[i].out.err # "UnicodeDecodeError" /\ ~HasBadStr(obj)

\* encodeRepaired returned text for {'a': {'b': {'c': '\xe9A'}}}
C3_Witness ==
  /\ Len(calls) = 1
  /\ calls[1].op = "encodeRepaired"
  /\ orig = Dict(<<Item(KeyA, Dict(<<Item(KeyB,
                   Dict(<<Item(KeyC, Str(<<233, 65>>))>>))>>))>>)
  /\ result.ok
  /\ result.text = <<"{", "\"", "a", "\"", ":", " ", "{", "\"", "b", "\"",
                     ":", " ", "{", "\"", "c", "\"", ":", " ", "\"", "\\",
                     "u", "0", "0", "e", "9", "A", "\"", "}", "}", "}">>

(***************************************************************************)
(* C4 as claimed: the structure the caller supplied holds the same values  *)
(* after any encoder call as before it.                                    *)
(***************************************************************************)
C4_InputUnchanged == obj = orig

(***************************************************************************)
(* C4 as amended: encode leaves the caller's structure as it was;          *)
(* encodeRepaired and iterate_dictionary store into it, and afterwards it  *)
(* differs from what the caller supplied exactly when it held a non-UTF-8  *)
(* byte string as a value of a mapping reached through mapping values; a   *)
(* call that fails because the value is no mapping has changed nothing.    *)
(***************************************************************************)
C4_ChangedOnlyByRepair ==
  /\ ~Walked => obj = orig
  /\ orig.t # "dict" => obj = orig
  /\ (Walked /\ orig.t = "dict") => ((obj # orig) <=> HasWalkedBadStr(orig))

\* encodeRepaired has replaced a value in the caller's mapping
C4_Witness ==
  /\ Len(calls) = 1
  /\ calls[1].op = "encodeRepaired"
  /\ orig = Dict(<<Item(KeyA, Str(<<233>>)), Item(KeyB, Str(<<65>>))>>)
  /\ obj = Dict(<<Item(KeyA, Unicode(<<233>>)), Item(KeyB, Str(<<65>>))>>)
  /\ result.ok

(***************************************************************************)
(* C9: for every value that holds no non-UTF-8 byte string, encodeRepaired *)
(* has the outcome of encode: the same text, or a failure where encode     *)
(* fails.                                                                  *)
(***************************************************************************)
C9_RepairedAgreesWithEncode ==
  \A i, j \in 1..Len(calls) :
    (/\ calls[i].op = "encode"
     /\ calls[j].op = "encodeRepaired"
     /\ ~HasBadStr(orig)) =>
      /\ calls[i].out.ok = calls[j].out.ok
      /\ calls[i].out.text = calls[j].out.text

(***************************************************************************)
(* C10: the walk changes nothing but byte-string values of the mappings it *)
(* reaches through mapping values: keys, sequences and what they hold, and *)
(* every value that is no byte string are as the caller supplied them.     *)
(***************************************************************************)
C10_WalkFrame ==
  IF orig.t = "dict" THEN FrameKept(orig, obj) ELSE obj = orig

\* a walk has run on {'a': [{'b': '\xe9'}]} and left it as it was
C10_Witness ==
  /\ Len(calls) = 1
  /\ calls[1].op = "iterate_dictionary"
  /\ result.ok
  /\ orig = Dict(<<Item(KeyA, List(<<Dict(<<Item(KeyB, Str(<<233>>))>>)>>))>>)
  /\ obj = orig

\* the calls that repair: the walk, alone or inside encode
Repairs == {"iterate_dictionary", "encodeRepaired"}

\* a step that is the second run of a repair on a mapping a first run of a
\* repair was made on
SecondRepair ==
  /\ orig.t = "dict"
  /\ Len(calls) = 1
  /\ calls[1].op \in Repairs
  /\ Len(calls') = 2
  /\ calls'[2].op \in Repairs

RECURSIVE HasUnserializable(_)
\* whether a value holds what the serializer rejects with TypeError: a value
\* of a type it does not know, or a mapping key that is no string, int or
\* None
HasUnserializable(v) ==
  IF v.t = "object" THEN TRUE
  ELSE IF v.t = "list"
  THEN \E i \in 1..Len(v.items) : HasUnserializable(v.items[i])
  ELSE IF v.t = "dict"
  THEN \E i \in 1..Len(v.items) :
         \/ v.items[i].k.t \notin {"str", "unicode", "int", "none"}
         \/ HasUnserializable(v.items[i].v)
  ELSE FALSE

(***************************************************************************)
(* C12 as claimed: repair is idempotent.  A second run of                  *)
(* iterate_dictionary or of encodeRepaired on a mapping that was already   *)
(* repaired changes no value, raises no error, and a second encodeRepaired *)
(* yields the serialized text of the first.                                *)
(***************************************************************************)
C12_SecondRunNeverFails ==
  [][SecondRepair =>
       /\ obj' = obj
       /\ calls'[2].out.ok
       /\ (calls[1].op = "encodeRepaired" /\ calls'[2].op = "encodeRepaired") =>
            calls'[2].out.text = calls[1].out.text]_vars

(***************************************************************************)
(* C12 as amended: a second run of iterate_dictionary or of encodeRepaired *)
(* on a mapping that was already repaired changes no value, for the        *)
(* repaired values are text and no byte string is left for the walk to     *)
(* validate.  A second iterate_dictionary raises no error.  A second       *)
(* encodeRepaired raises no error exactly when the repaired mapping holds  *)
(* no non-UTF-8 byte string where the walk does not go (a key, a sequence) *)
(* and nothing the serializer rejects; otherwise it fails in the           *)
(* serializer, with UnicodeDecodeError or TypeError on the values handed   *)
(* in here.  The second run of a call ends as its first run did: with the  *)
(* same text, or with the same error.                                      *)
(***************************************************************************)
C12_RepairIsIdempotent ==
  [][SecondRepair =>
       /\ ~HasWalkedBadStr(obj)
       /\ obj' = obj
       /\ calls'[2].op = "iterate_dictionary" => calls'[2].out.ok
       /\ calls'[2].op = "encodeRepaired" =>
            /\ calls'[2].out.ok <=> (~HasBadStr(obj) /\ ~HasUnserializable(obj))
            /\ ~calls'[2].out.ok =>
                 calls'[2].out.err \in {"UnicodeDecodeError", "TypeError"}
            /\ HasBadStr(obj) => HasUnwalkedBadStr(orig)
       /\ calls'[2].op = calls[1].op => calls'[2].out = calls[1].out]_vars

\* encode has run twice on {'a': {'b': '\xe9'}, 'c': '\xc3\xa9'}: the
\* first run replaced '\xe9' by u'\xe9', and both returned the same text
C12_Witness ==
  /\ Len(calls) = 2
  /\ calls[1].op = "encodeRepaired"
  /\ calls[2].op = "encodeRepaired"
  /\ orig = Dict(<<Item(KeyA, Dict(<<Item(KeyB, Str(<<233>>))>>)),
                   Item(KeyC, Str(<<195, 169>>))>>)
  /\ obj = Dict(<<Item(KeyA, Dict(<<Item(KeyB, Unicode(<<233>>))>>)),
                  Item(KeyC, Str(<<195, 169>>))>>)
  /\ calls[1].out.ok
  /\ calls[2].out = calls[1].out
  /\ calls[2].out.text =
       <<"{", "\"", "a", "\"", ":", " ", "{", "\"", "b", "\"", ":", " ",
         "\"", "\\", "u", "0", "0", "e", "9", "\"", "}", ",", " ",
         "\"", "c", "\"", ":", " ",
         "\"", "\\", "u", "0", "0", "e", "9", "\"", "}">>

(***************************************************************************)
(* DateTimeJSONEncoder.default on temporal values.                         *)
(***************************************************************************)
\* utcoffset() values of the aware inputs, in minutes
TzOffsets == {-720, -90, 0, 60, 330}

Years == {MINYEAR, 2016, MAXYEAR}

Months == {1, 2, 12}

Days == {1, 29, 31}

\* the dates the inputs are on: the days each month has
CivilDates ==
  {ymd \in Years \X Months \X Days : ymd[3] <= DaysInMonth(ymd[1], ymd[2])}

\* the temporal values handed to default
Temporals ==
  {Date(ymd[1], ymd[2], ymd[3]) : ymd \in CivilDates}
  \cup {DateTime(ymd[1], ymd[2], ymd[3], hm[1], hm[2], su[1], su[2], FALSE, 0) :
          ymd \in CivilDates, hm \in {0, 23} \X {0, 30}, su \in {0, 59} \X {0, 5}}
  \cup {DateTime(ymd[1], ymd[2], ymd[3], hm[1], hm[2], su[1], su[2], TRUE, off) :
          ymd \in CivilDates, hm \in {0, 23} \X {0, 30}, su \in {0, 59} \X {0, 5},
          off \in TzOffsets}

InitDate ==
  /\ obj \in Temporals
  /\ orig = obj
  /\ result = NoResult
  /\ calls = <<>>
  /\ threads = <<>>

\* DateTimeJSONEncoder().default(obj)
CallDefault ==
  /\ calls = <<>>
  /\ LET r == Default(obj)
     IN  /\ result' = r
         /\ calls' = <<[op |-> "default", out |-> r]>>
  /\ UNCHANGED <<obj, orig, threads>>

NextDate == CallDefault

SpecDate == InitDate /\ [][NextDate]_vars

(***************************************************************************)
(* Reading an ISO-8601 text back.                                          *)
(***************************************************************************)
IsDigit(c) == \E i \in 1..10 : Digit[i] = c

DigitVal(c) == (CHOOSE i \in 1..10 : Digit[i] = c) - 1

RECURSIVE Num(_, _, _)
\* the number written by the digits at positions a..b of a text
Num(text, a, b) ==
  IF a > b THEN 0 ELSE Num(text, a, b - 1) * 10 + DigitVal(text[b])

AllDigits(text, a, b) == \A i \in a..b : IsDigit(text[i])

\* whether a text is YYYY-MM-DD
IsIsoDate(text) ==
  /\ Len(text) = 10
  /\ AllDigits(text, 1, 4) /\ text[5] = "-" /\ AllDigits(text, 6, 7)
  /\ text[8] = "-" /\ AllDigits(text, 9, 10)

\* whether a text is YYYY-MM-DDTHH:MM:SS[.ffffff](+|-)HH:MM
IsIsoDateTimeWithOffset(text) ==
  /\ Len(text) \in {25, 32}
  /\ IsIsoDate(SubSeq(text, 1, 10))
  /\ text[11] = "T"
  /\ AllDigits(text, 12, 13) /\ text[14] = ":" /\ AllDigits(text, 15, 16)
  /\ text[17] = ":" /\ AllDigits(text, 18, 19)
  /\ Len(text) = 32 => (text[20] = "." /\ AllDigits(text, 21, 26))
  /\ LET z == Len(text) - 6
     IN  /\ text[z + 1] \in {"+", "-"}
         /\ AllDigits(text, z + 2, z + 3) /\ text[z + 4] = ":"
         /\ AllDigits(text, z + 5, z + 6)

\* the value an ISO-8601 date-time text with an offset denotes
ParseIso(text) ==
  LET z == Len(text) - 6
      a == Num(text, z + 2, z + 3) * 60 + Num(text, z + 5, z + 6)
  IN  DateTime(Num(text, 1, 4), Num(text, 6, 7), Num(text, 9, 10),
               Num(text, 12, 13), Num(text, 15, 16), Num(text, 18, 19),
               IF Len(text) = 32 THEN Num(text, 21, 26) ELSE 0,
               TRUE, IF text[z + 1] = "-" THEN 0 - a ELSE a)

\* the instant of an aware date-time, as <<day, minute>>: the ordinal of its
\* day in UTC (1 for 0001-01-01) and the minute of that day
Instant(d) ==
  LET total == d.hour * 60 + d.minute - d.off
  IN  <<DaysBeforeYear(d.year) + DaysBeforeMonth(d.year, d.month) + d.day
        + (total \div 1440), total % 1440>>

\* whether an instant lies within 0001-01-01T00:00 .. 9999-12-31T23:59 UTC,
\* the instants a date-time can hold
InstantInRange(i) == i[1] >= 1 /\ i[1] <= DaysBeforeYear(MAXYEAR + 1)

\* the text is an ISO-8601 date-time at offset +00:00 denoting the instant
\* and the seconds of the aware value d
SameInstantInUTC(d, text) ==
  /\ IsIsoDateTimeWithOffset(text)
  /\ LET p == ParseIso(text)
     IN  /\ p.off = 0
         /\ SubSeq(text, Len(text) - 5, Len(text)) = <<"+", "0", "0", ":", "0", "0">>
         /\ p.month \in 1..12 /\ p.day \in 1..DaysInMonth(p.year, p.month)
         /\ p.hour \in 0..23 /\ p.minute \in 0..59
         /\ Instant(p) = Instant(d)
         /\ p.second = d.second /\ p.microsecond = d.microsecond
         /\ (Len(text) = 32) = (d.microsecond # 0)

\* the text is an ISO-8601 date-time at offset +00:00 with the wall-clock
\* fields of the naive value d
SameFieldsAsUTC(d, text) ==
  /\ IsIsoDateTimeWithOffset(text)
  /\ ParseIso(text) = [d EXCEPT !.aware = TRUE]
  /\ (Len(text) = 32) = (d.microsecond # 0)

\* the text is the date-only ISO-8601 form of the date d
SameDate(d, text) ==
  /\ IsIsoDate(text)
  /\ Num(text, 1, 4) = d.year /\ Num(text, 6, 7) = d.month
  /\ Num(text, 9, 10) = d.day

\* the aware values of the input set that denote the instant of d
SameInstantInputs(d) ==
  {e \in Temporals : /\ e.t = "datetime" /\ e.aware
                     /\ e.year \in {d.year - 1, d.year, d.year + 1}
                     /\ Instant(e) = Instant(d)
                     /\ e.second = d.second /\ e.microsecond = d.microsecond}

(***************************************************************************)
(* C1 as claimed: default emits a naive date-time with its wall-clock      *)
(* fields labelled +00:00, every aware date-time as the same instant at    *)
(* +00:00, a date as its date-only form; aware date-times of one instant   *)
(* get one text.                                                           *)
(***************************************************************************)
C1_EveryTemporalEncodes ==
  calls # <<>> =>
    /\ result.ok
    /\ (obj.t = "datetime" /\ ~obj.aware) => SameFieldsAsUTC(obj, result.text)
    /\ (obj.t = "datetime" /\ obj.aware) => SameInstantInUTC(obj, result.text)
    /\ obj.t = "date" => SameDate(obj, result.text)

(***************************************************************************)
(* C1 as amended: as claimed for naive date-times and dates; an aware      *)
(* date-time is emitted as the same instant at +00:00 when that instant    *)
(* lies within 0001-01-01T00:00 .. 9999-12-31T23:59 UTC, and default       *)
(* raises OverflowError when it does not; aware date-times of one instant  *)
(* get one text.                                                           *)
(***************************************************************************)
C1_TemporalEncodesInRange ==
  calls # <<>> =>
    /\ (obj.t = "datetime" /\ ~obj.aware) =>
         (result.ok /\ SameFieldsAsUTC(obj, result.text))
    /\ (obj.t = "datetime" /\ obj.aware) =>
         IF InstantInRange(Instant(obj))
         THEN /\ result.ok
              /\ SameInstantInUTC(obj, result.text)
              /\ \A e \in SameInstantInputs(obj) : Default(e) = result
         ELSE ~result.ok /\ result.err = "OverflowError"
    /\ obj.t = "date" => (result.ok /\ SameDate(obj, result.text))

\* 2016-02-01T00:00:59.000005+01:00 was emitted as 2016-01-31T23:00:59.000005
\* at +00:00, as is the same instant given at +00:00
C1_Witness ==
  /\ calls # <<>>
  /\ obj = DateTime(2016, 2, 1, 0, 0, 59, 5, TRUE, 60)
  /\ result.ok
  /\ result.text = <<"2", "0", "1", "6", "-", "0", "1", "-", "3", "1", "T",
                     "2", "3", ":", "0", "0", ":", "5", "9", ".", "0", "0",
                     "0", "0", "0", "5", "+", "0", "0", ":", "0", "0">>
  /\ Cardinality(SameInstantInputs(obj)) >= 2

(***************************************************************************)
(* Course metadata formatter.  The functions themselves                    *)
(* (xmodule.course_metadata_utils) are not among the sources: they are     *)
(* modelled from their specified contract, while the scenarios, the mock   *)
(* formatting function and the fixtures are those of                       *)
(* test_course_metadata_utils.py.                                          *)
(***************************************************************************)
\* the format specifiers mock_strftime_localized accepts
DATE_TIME ==
  <<"D", "A", "T", "E", "_", "T", "I", "M", "E">>
TIME ==
  <<"T", "I", "M", "E">>
SHORT_DATE ==
  <<"S", "H", "O", "R", "T", "_", "D", "A", "T", "E">>
LONG_DATE ==
  <<"L", "O", "N", "G", "_", "D", "A", "T", "E">>
\* the specifier the test expects it to reject
BAD_FORMAT_SPECIFIER ==
  <<"B", "A", "D", "_", "F", "O", "R", "M", "A", "T", "_", "S", "P",
      "E", "C", "I", "F", "I", "E", "R">>

\* strftime("%Y-%m-%d"): the time of day left out of the format
StrftimeDateOnly(d) ==
  IF d.year < 1900 THEN Raised("ValueError")
  ELSE Returned(Pad4(d.year) \o <<"-">> \o Pad2(d.month) \o <<"-">>
                \o Pad2(d.day))

\* date_time.strftime("%Y-%m-%d %H:%M:%S"); Python 2 raises ValueError for a
\* year before 1900
Strftime(d) ==
  IF d.year < 1900 THEN Raised("ValueError")
  ELSE Returned(Pad4(d.year) \o <<"-">> \o Pad2(d.month) \o <<"-">>
                \o Pad2(d.day) \o <<" ">> \o Pad2(d.hour) \o <<":">>
                \o Pad2(d.minute) \o <<":">> \o Pad2(d.second))

\* mock_strftime_localized with a formatting that takes every year
MockStrftimeLocalizedAnyYear(date_time, format_string) ==
  IF format_string \in {DATE_TIME, TIME, SHORT_DATE, LONG_DATE}
  THEN Returned(format_string \o <<" ">> \o Pad4(date_time.year) \o <<"-">>
                \o Pad2(date_time.month) \o <<"-">> \o Pad2(date_time.day)
                \o <<" ">> \o Pad2(date_time.hour) \o <<":">>
                \o Pad2(date_time.minute) \o <<":">> \o Pad2(date_time.second))
  ELSE Raised("ValueError")

\* mock_strftime_localized(date_time, format_string)
MockStrftimeLocalized(date_time, format_string) ==
  IF format_string \in {DATE_TIME, TIME, SHORT_DATE, LONG_DATE}
  THEN LET s == Strftime(date_time)
       IN  IF s.ok THEN Returned(format_string \o <<" ">> \o s.text) ELSE s
  ELSE Raised("ValueError")

\* nop_gettext(text)
NopGettext(text) == text

\* test_datetime = datetime(1945, 02, 06, 04, 20, 00, tzinfo=UTC())
TestDatetime == DateTime(1945, 2, 6, 4, 20, 0, 0, TRUE, 0)

AdvertisedStartParsable ==
  <<"2", "0", "3", "8", "-", "0", "1", "-", "1", "9", " ", "0", "3",
      ":", "1", "4", ":", "0", "7">>
AdvertisedStartBadDate ==
  <<"2", "1", "5", "-", "0", "1", "-", "0", "1", " ", "1", "0", ":",
      "1", "0", ":", "1", "0">>
AdvertisedStartUnparsable ==
  <<"T", "h", "i", "s", " ", "c", "o", "m", "i", "n", "g", " ", "f",
      "a", "l", "l">>

IsLower(c) == Ord(c) >= 97 /\ Ord(c) <= 122

IsUpper(c) == Ord(c) >= 65 /\ Ord(c) <= 90

\* str.title(): a letter that follows no letter is made upper case, a letter
\* that follows a letter lower case, any other character kept
Title(s) ==
  [i \in 1..Len(s) |->
     LET c == s[i]
         afterLetter == i > 1 /\ (IsLower(s[i - 1]) \/ IsUpper(s[i - 1]))
     IN  IF IsLower(c) /\ ~afterLetter THEN Chr(Ord(c) - 32)
         ELSE IF IsUpper(c) /\ afterLetter THEN Chr(Ord(c) + 32)
         ELSE c]

\* the sentinel default start date (DEFAULT_START_DATE, imported by the test)
DEFAULT_START_DATE == DateTime(2030, 1, 1, 0, 0, 0, 0, TRUE, 0)

\* Date().from_json(advertised_start): a text 'Y-MM-DD HH:MM:SS' with a year
\* of one to four digits parses to that date-time in UTC; any other text
\* raises ValueError
FromJson(s) ==
  LET n == Len(s)
      y == n - 15
  IN  IF /\ n >= 16 /\ n <= 19
         /\ \A i \in 1..n :
              IF i \in {y + 1, y + 4} THEN s[i] = "-"
              ELSE IF i = y + 7 THEN s[i] = " "
              ELSE IF i \in {y + 10, y + 13} THEN s[i] = ":"
              ELSE \E k \in 1..10 : Digit[k] = s[i]
      THEN LET num(a, b) ==
                 LET v[j \in (a - 1)..b] ==
                       IF j < a THEN 0
                       ELSE v[j - 1] * 10
                            + (CHOOSE k \in 0..9 : Digit[k + 1] = s[j])
                 IN  v[b]
               d == DateTime(num(1, y), num(y + 2, y + 3), num(y + 5, y + 6),
                             num(y + 8, y + 9), num(y + 11, y + 12),
                             num(y + 14, y + 15), 0, TRUE, 0)
           IN  IF /\ d.year >= MINYEAR /\ d.month \in 1..12
                  /\ d.day >= 1 /\ d.day <= DaysInMonth(d.year, d.month)
                  /\ d.hour <= 23 /\ d.minute <= 59 /\ d.second <= 59
               THEN [ok |-> TRUE, dt |-> d, err |-> ""]
               ELSE [ok |-> FALSE, dt |-> TestDatetime, err |-> "ValueError"]
      ELSE [ok |-> FALSE, dt |-> TestDatetime, err |-> "ValueError"]

\* an argument that is None or a text
NoText == [set |-> FALSE, text |-> <<>>]

Text(s) == [set |-> TRUE, text |-> s]

\* course_start_datetime_text(start_date, advertised_start, format_string,
\* ugettext, strftime_localized), the injected functions being nop_gettext
\* and mock_strftime_localized; by the contract: an advertised start that
\* parses is formatted and followed by ' UTC'; one that does not parse, or
\* that the formatting function rejects, is returned in Title Case; with no
\* advertised start the start date is formatted, the sentinel giving 'TBD'
CourseStartDatetimeText(start_date, advertised_start, format_string) ==
  IF advertised_start.set
  THEN LET p == FromJson(advertised_start.text)
           f == MockStrftimeLocalized(p.dt, format_string)
       IN  IF p.ok /\ f.ok
           THEN Returned(f.text \o <<" ", "U", "T", "C">>)
           ELSE Returned(Title(advertised_start.text))
  ELSE IF start_date # DEFAULT_START_DATE
  THEN MockStrftimeLocalized(start_date, format_string)
  ELSE Returned(NopGettext(<<"T", "B", "D">>))

\* may_certify_for_course(certificates_display_behavior,
\* certificates_show_before_end, has_ended), by the contract and the rows of
\* the test: true iff the policy is early_with_info or early_no_info, or it
\* is end and certificates are shown before the end or the course has
\* ended (the test has ('end', True, False) return True)
MayCertifyForCourse(policy, display, has_ended) ==
  \/ policy = "early_with_info"
  \/ policy = "early_no_info"
  \/ (policy = "end" /\ (display \/ has_ended))

\* the arguments of a course_start_datetime_text call
StartArgs(start_date, advertised_start, format_string) ==
  [start_date |-> start_date, advertised_start |-> advertised_start,
   format_string |-> format_string]

\* the arguments of a may_certify_for_course call
CertArgs(policy, display, has_ended) ==
  [policy |-> policy, display |-> display, has_ended |-> has_ended]

\* the scenarios of test_course_metadata_utils for
\* course_start_datetime_text: arguments (start_date, advertised_start,
\* format_string) and the expected return
StartTextScenarios ==
  <<[args |-> StartArgs(DEFAULT_START_DATE, Text(AdvertisedStartParsable), DATE_TIME),
     expected |->
       LET f == MockStrftimeLocalized(FromJson(AdvertisedStartParsable).dt,
                                      DATE_TIME)
       IN  Returned(f.text \o <<" ", "U", "T", "C">>)],
    [args |-> StartArgs(TestDatetime, Text(AdvertisedStartUnparsable), DATE_TIME),
     expected |-> Returned(Title(AdvertisedStartUnparsable))],
    [args |-> StartArgs(TestDatetime, Text(AdvertisedStartBadDate), DATE_TIME),
     expected |-> Returned(Title(AdvertisedStartBadDate))],
    [args |-> StartArgs(TestDatetime, NoText, SHORT_DATE),
     expected |-> MockStrftimeLocalized(TestDatetime, SHORT_DATE)],
    [args |-> StartArgs(DEFAULT_START_DATE, NoText, SHORT_DATE),
     expected |-> Returned(<<"T", "B", "D">>)]>>

\* a boolean return value
ReturnedFlag(b) == [ok |-> TRUE, text |-> <<>>, err |-> "", flag |-> b]

\* the scenarios with ('end', True, False) expected False, as the rule
\* 'early policy, or ended' alone would have it
MayCertifyScenariosEndOnly ==
  <<[args |-> CertArgs("early_with_info", TRUE, TRUE), expected |-> ReturnedFlag(TRUE)],
    [args |-> CertArgs("early_no_info", FALSE, FALSE), expected |-> ReturnedFlag(TRUE)],
    [args |-> CertArgs("end", TRUE, FALSE), expected |-> ReturnedFlag(FALSE)],
    [args |-> CertArgs("end", FALSE, TRUE), expected |-> ReturnedFlag(TRUE)],
    [args |-> CertArgs("end", FALSE, FALSE), expected |-> ReturnedFlag(FALSE)]>>

\* the scenarios of test_course_metadata_utils for may_certify_for_course
MayCertifyScenarios ==
  <<[args |-> CertArgs("early_with_info", TRUE, TRUE), expected |-> ReturnedFlag(TRUE)],
    [args |-> CertArgs("early_no_info", FALSE, FALSE), expected |-> ReturnedFlag(TRUE)],
    [args |-> CertArgs("end", TRUE, FALSE), expected |-> ReturnedFlag(TRUE)],
    [args |-> CertArgs("end", FALSE, TRUE), expected |-> ReturnedFlag(TRUE)],
    [args |-> CertArgs("end", FALSE, FALSE), expected |-> ReturnedFlag(FALSE)]>>

\* start dates of the calls: the test's, the sentinel, one more
StartDates == {TestDatetime, DEFAULT_START_DATE, DateTime(2015, 9, 1, 12, 0, 0, 0, TRUE, 0)}

\* advertised starts of the calls: unset, the test's three, and the two
\* sides of 1900
AdvertisedStarts ==
  {NoText, Text(AdvertisedStartParsable), Text(AdvertisedStartBadDate),
   Text(AdvertisedStartUnparsable),
   Text(<<"1", "8", "9", "9", "-", "1", "2", "-", "3", "1", " ", "2", "3",
        ":", "5", "9", ":", "5", "9">>),
   Text(<<"1", "9", "0", "0", "-", "0", "1", "-", "0", "1", " ", "0", "0",
        ":", "0", "0", ":", "0", "0">>)}

FormatStrings == {DATE_TIME, TIME, SHORT_DATE, LONG_DATE, BAD_FORMAT_SPECIFIER}

Policies == {"early_with_info", "early_no_info", "end"}

\* the calls made: the test's scenarios (scenario is the row, expected its
\* expected return) and calls over the argument sets (scenario 0)
CourseCalls ==
  {[fn |-> "course_start_datetime_text", args |-> StartTextScenarios[i].args,
    scenario |-> i, expected |-> StartTextScenarios[i].expected] :
     i \in 1..Len(StartTextScenarios)}
  \cup {[fn |-> "may_certify_for_course", args |-> MayCertifyScenarios[i].args,
         scenario |-> i, expected |-> MayCertifyScenarios[i].expected] :
          i \in 1..Len(MayCertifyScenarios)}
  \cup {[fn |-> "course_start_datetime_text", args |-> StartArgs(s, a, f),
         scenario |-> 0, expected |-> NoResult] :
          s \in StartDates, a \in AdvertisedStarts, f \in FormatStrings}
  \cup {[fn |-> "may_certify_for_course", args |-> CertArgs(p, d, e),
         scenario |-> 0, expected |-> NoResult] :
          p \in Policies, d \in BOOLEAN, e \in BOOLEAN}

InitCourse ==
  /\ obj \in CourseCalls
  /\ orig = obj
  /\ result = NoResult
  /\ calls = <<>>
  /\ threads = <<>>

\* course_start_datetime_text(*scenario.arguments)
CallCourseStartDatetimeText ==
  /\ calls = <<>>
  /\ obj.fn = "course_start_datetime_text"
  /\ LET r == CourseStartDatetimeText(obj.args.start_date, obj.args.advertised_start,
                                      obj.args.format_string)
     IN  /\ result' = r
         /\ calls' = <<[op |-> obj.fn, out |-> r]>>
  /\ UNCHANGED <<obj, orig, threads>>

\* may_certify_for_course(*scenario.arguments)
CallMayCertifyForCourse ==
  /\ calls = <<>>
  /\ obj.fn = "may_certify_for_course"
  /\ LET r == ReturnedFlag(MayCertifyForCourse(obj.args.policy, obj.args.display,
                                           obj.args.has_ended))
     IN  /\ result' = r
         /\ calls' = <<[op |-> obj.fn, out |-> r]>>
  /\ UNCHANGED <<obj, orig, threads>>

NextCourse == CallCourseStartDatetimeText \/ CallMayCertifyForCourse

SpecCourse == InitCourse /\ [][NextCourse]_vars

\* course_start_datetime_text has been called
StartTextCalled == calls # <<>> /\ obj.fn = "course_start_datetime_text"

\* may_certify_for_course has been called
MayCertifyCalled == calls # <<>> /\ obj.fn = "may_certify_for_course"

(***************************************************************************)
(* C6 as claimed: may_certify_for_course is true iff the policy is         *)
(* early_with_info or early_no_info, or it is end and the course has       *)
(* ended, whatever the second argument; and that rule gives the expected   *)
(* return of every scenario of the test.                                   *)
(***************************************************************************)
C6_RuleReproducesScenarios ==
  MayCertifyCalled =>
    /\ result.flag = (\/ obj.args.policy \in {"early_with_info", "early_no_info"}
                      \/ (obj.args.policy = "end" /\ obj.args.has_ended))
    /\ obj.scenario > 0 => result = obj.expected

(***************************************************************************)
(* C6 as amended: may_certify_for_course is true iff the policy is         *)
(* early_with_info or early_no_info, or the policy is end and the second   *)
(* argument or hasEnded is true; so the second argument decides            *)
(* ('end', True, False), which is True, against ('end', False, False),     *)
(* which is False; and that rule gives the expected return of every        *)
(* scenario of the test.                                                   *)
(***************************************************************************)
C6_ScenariosFollowShowBeforeEnd ==
  MayCertifyCalled =>
    /\ result.flag =
         (\/ obj.args.policy \in {"early_with_info", "early_no_info"}
          \/ (obj.args.policy = "end" /\ (obj.args.display \/ obj.args.has_ended)))
    /\ obj.scenario > 0 => result = obj.expected
    /\ (obj.args = CertArgs("end", FALSE, FALSE)) => (result.flag = FALSE)
    /\ (obj.args = CertArgs("end", TRUE, FALSE)) => (result.flag = TRUE)

\* the scenario ('end', True, False), expected True, has been run
C6_Witness ==
  /\ MayCertifyCalled
  /\ obj.scenario = 3
  /\ obj.args = CertArgs("end", TRUE, FALSE)
  /\ obj.expected.flag = TRUE
  /\ result.flag = TRUE

\* the advertised start of the call cannot be rendered: it does not parse,
\* or it parses to a year before 1900 or the format specifier is not one of
\* the four, which mock_strftime_localized rejects with ValueError
AdvertisedStartFails ==
  LET p == FromJson(obj.args.advertised_start.text)
  IN  \/ ~p.ok
      \/ p.dt.year < 1900
      \/ obj.args.format_string \notin {DATE_TIME, TIME, SHORT_DATE, LONG_DATE}

(***************************************************************************)
(* C7: when the advertised start is set and parsing it or formatting the   *)
(* parsed date raises ValueError, course_start_datetime_text returns the   *)
(* advertised start in Title Case, for every start date, and raises        *)
(* nothing; the two fallback scenarios of the test return as expected.     *)
(***************************************************************************)
C7_FallbackToTitleCase ==
  StartTextCalled =>
    /\ (obj.args.advertised_start.set /\ AdvertisedStartFails) =>
         /\ result.ok
         /\ result.text = Title(obj.args.advertised_start.text)
    /\ obj.args.advertised_start.set => result.ok
    /\ obj.scenario \in {2, 3} => result = obj.expected
    /\ obj.scenario = 2 =>
         result.text = <<"T", "h", "i", "s", " ", "C", "o", "m", "i",
                         "n", "g", " ", "F", "a", "l", "l">>
    /\ obj.scenario = 3 =>
         result.text = <<"2", "1", "5", "-", "0", "1", "-", "0", "1",
                         " ", "1", "0", ":", "1", "0", ":", "1", "0">>

\* the scenario with the advertised start of year 215 has returned it
C7_Witness ==
  /\ StartTextCalled
  /\ obj.scenario = 3
  /\ obj.args.start_date = TestDatetime
  /\ FromJson(obj.args.advertised_start.text).ok
  /\ FromJson(obj.args.advertised_start.text).dt.year = 215
  /\ result.ok
  /\ result.text = AdvertisedStartBadDate

(***************************************************************************)
(* C8: with no advertised start, course_start_datetime_text returns 'TBD'  *)
(* for the sentinel start date and otherwise what the formatting function  *)
(* gives for the start date, with no ' UTC' after it; with an advertised   *)
(* start that parses and formats, it returns the formatted parsed date     *)
(* followed by ' UTC', whatever the start date, the sentinel included.     *)
(***************************************************************************)
C8_StartTextByAdvertisedStart ==
  StartTextCalled =>
    LET a == obj.args
    IN  /\ (~a.advertised_start.set /\ a.start_date = DEFAULT_START_DATE) =>
             result = Returned(<<"T", "B", "D">>)
        /\ (~a.advertised_start.set /\ a.start_date # DEFAULT_START_DATE) =>
             result = MockStrftimeLocalized(a.start_date, a.format_string)
        /\ (a.advertised_start.set /\ ~AdvertisedStartFails) =>
             /\ result.ok
             /\ result.text =
                  MockStrftimeLocalized(FromJson(a.advertised_start.text).dt,
                                        a.format_string).text
                  \o <<" ", "U", "T", "C">>
        /\ obj.scenario \in {1, 4, 5} => result = obj.expected
        /\ obj.scenario = 1 =>
             result.text = <<"D", "A", "T", "E", "_", "T", "I", "M", "E",
                             " ", "2", "0", "3", "8", "-", "0", "1", "-",
                             "1", "9", " ", "0", "3", ":", "1", "4", ":",
                             "0", "7", " ", "U", "T", "C">>
        /\ obj.scenario = 4 =>
             result.text = <<"S", "H", "O", "R", "T", "_", "D", "A", "T",
                             "E", " ", "1", "9", "4", "5", "-", "0", "2",
                             "-", "0", "6", " ", "0", "4", ":", "2", "0",
                             ":", "0", "0">>

\* the parsable advertised start has been rendered for the sentinel start date
C8_Witness ==
  /\ StartTextCalled
  /\ obj.scenario = 1
  /\ obj.args.start_date = DEFAULT_START_DATE
  /\ obj.args.advertised_start = Text(AdvertisedStartParsable)
  /\ result.ok
  /\ SubSeq(result.text, Len(result.text) - 3, Len(result.text))
       = <<" ", "U", "T", "C">>

(***************************************************************************)
(* LatinJSONEncoder.encode called from several threads.  obj is here the   *)
(* sequence of the mapping objects in memory and threads[i].root the one   *)
(* handed to the call of thread i (two threads with one root share the     *)
(* object).  A call is at pc                                               *)
(*   "call"      before iterate_dictionary                                 *)
(*   "loop"      at the for statement (line 50), pos being the item index  *)
(*               in each mapping from the root down to the one walked      *)
(*   "validate"  before obj[key].decode('utf8') (line 58)                  *)
(*   "redecode"  before obj[key].decode('latin1') (line 60, right side)    *)
(*   "store"     before the assignment to obj[key] (line 60)               *)
(*   "serialize" before super().encode(obj) (line 43)                      *)
(*   "done"      returned or raised, out being the outcome                 *)
(***************************************************************************)
\* number of threads calling encode
NThreads == 2

\* the mappings the threads encode
ThreadStructures ==
  {Dict(<<Item(KeyA, s)>>) : s \in SampleStrings}
  \cup {Dict(<<Item(KeyA, s), Item(KeyB, s2)>>) : s \in SampleStrings, s2 \in SampleStrings}
  \cup {Dict(<<Item(KeyA, Dict(<<Item(KeyB, s)>>))>>) : s \in SampleStrings}
  \cup {Dict(<<Item(KeyA, PyInt(7)), Item(KeyB, Unicode(<<233>>))>>)}

Front(s) == SubSeq(s, 1, Len(s) - 1)

Last(s) == s[Len(s)]

RECURSIVE DictAt(_, _)
\* the mapping reached from mapping o through the items of the indexes path
DictAt(o, path) ==
  IF path = <<>> THEN o ELSE DictAt(o.items[Head(path)].v, Tail(path))

RECURSIVE StoreAt(_, _, _)
\* mapping o after the assignment of v to the item at the indexes pos
StoreAt(o, pos, v) ==
  IF Len(pos) = 1 THEN [o EXCEPT !.items[pos[1]].v = v]
  ELSE [o EXCEPT !.items[pos[1]].v = StoreAt(o.items[pos[1]].v, Tail(pos), v)]

\* obj[key] of the mapping thread i walks, as it is now
Current(i) ==
  DictAt(obj[threads[i].root], Front(threads[i].pos)).items[Last(threads[i].pos)].v

InitThreads ==
  /\ \E o \in ThreadStructures : obj = [n \in 1..NThreads |-> o]
  /\ orig = obj
  /\ result = NoResult
  /\ calls = <<>>
  /\ threads \in [1..NThreads ->
                    {[root |-> r, pc |-> "call", pos |-> <<>>,
                      tmp |-> None, out |-> NoResult] : r \in 1..NThreads}]

\* a thread raises: its call is over
Raise(i, err) ==
  threads' = [threads EXCEPT ![i].pc = "done", ![i].out = Raised(err)]

\* encode(obj) enters iterate_dictionary(obj) (line 41)
ThreadCall(i) ==
  /\ threads[i].pc = "call"
  /\ threads' = [threads EXCEPT ![i].pc = "loop", ![i].pos = <<0>>]
  /\ UNCHANGED <<obj, orig, result, calls>>

\* for key, value in obj.iteritems() with the isinstance tests on value
\* (lines 50-53); at the end of the items iterate_dictionary returns (line 61)
ThreadLoop(i) ==
  /\ threads[i].pc = "loop"
  /\ LET pos  == threads[i].pos
         d    == DictAt(obj[threads[i].root], Front(pos))
         next == Last(pos) + 1
     IN  IF next > Len(d.items)
         THEN IF Len(pos) = 1
              THEN threads' = [threads EXCEPT ![i].pc = "serialize", ![i].pos = <<>>]
              ELSE threads' = [threads EXCEPT ![i].pos = Front(pos)]
         ELSE LET value == d.items[next].v
                  at    == Append(Front(pos), next)
              IN  IF value.t = "dict"
                  THEN threads' = [threads EXCEPT ![i].pos = Append(at, 0)]
                  ELSE IF value.t = "str"
                  THEN threads' = [threads EXCEPT ![i].pos = at, ![i].pc = "validate"]
                  ELSE threads' = [threads EXCEPT ![i].pos = at]
  /\ UNCHANGED <<obj, orig, result, calls>>

\* obj[key].decode('utf8') (line 58): of a byte string it returns or raises
\* UnicodeDecodeError, which is caught; of a text, Python 2 first encodes
\* the text as ASCII, which raises UnicodeEncodeError, which is not
ThreadValidate(i) ==
  /\ threads[i].pc = "validate"
  /\ LET cur == Current(i)
     IN  IF cur.t = "str"
         THEN threads' = [threads EXCEPT ![i].pc =
                            IF Utf8Valid(cur.b) THEN "loop" ELSE "redecode"]
         ELSE IF IsAscii(cur.c)
         THEN threads' = [threads EXCEPT ![i].pc = "loop"]
         ELSE Raise(i, "UnicodeEncodeError")
  /\ UNCHANGED <<obj, orig, result, calls>>

\* obj[key].decode('latin1') (line 60, right side)
ThreadRedecode(i) ==
  /\ threads[i].pc = "redecode"
  /\ LET cur == Current(i)
     IN  IF cur.t = "str"
         THEN threads' = [threads EXCEPT ![i].pc = "store", ![i].tmp = Redecode(cur)]
         ELSE IF IsAscii(cur.c)
         THEN threads' = [threads EXCEPT ![i].pc = "store", ![i].tmp = cur]
         ELSE Raise(i, "UnicodeEncodeError")
  /\ UNCHANGED <<obj, orig, result, calls>>

\* the store skipped: the decoded text is dropped
ThreadStoreDropped(i) ==
  /\ threads[i].pc = "store"
  /\ threads' = [threads EXCEPT ![i].pc = "loop", ![i].tmp = None]
  /\ UNCHANGED <<obj, orig, result, calls>>

\* obj[key] = ... (line 60)
ThreadStore(i) ==
  /\ threads[i].pc = "store"
  /\ obj' = [obj EXCEPT ![threads[i].root] =
               StoreAt(obj[threads[i].root], threads[i].pos, threads[i].tmp)]
  /\ threads' = [threads EXCEPT ![i].pc = "loop", ![i].tmp = None]
  /\ UNCHANGED <<orig, result, calls>>

\* super(LatinJSONEncoder, self).encode(obj) (line 43)
ThreadSerialize(i) ==
  /\ threads[i].pc = "serialize"
  /\ threads' = [threads EXCEPT ![i].pc = "done",
                                ![i].out = JsonEncode(obj[threads[i].root])]
  /\ UNCHANGED <<obj, orig, result, calls>>

NextThreads ==
  \E i \in 1..NThreads :
    \/ ThreadCall(i)
    \/ ThreadLoop(i)
    \/ ThreadValidate(i)
    \/ ThreadRedecode(i)
    \/ ThreadStore(i)
    \/ ThreadSerialize(i)

SpecThreads == InitThreads /\ [][NextThreads]_vars

\* what encode returns for a mapping when no other call runs
Alone(o) ==
  LET r == LatinEncode(o) IN [ok |-> r.ok, text |-> r.text, err |-> r.err]

\* no other thread was handed the mapping object of thread i
OwnObject(i) ==
  \A j \in 1..NThreads : j # i => threads[j].root # threads[i].root

(***************************************************************************)
(* C5 as claimed: in every interleaving, each of the concurrent calls      *)
(* returns without an error the text it returns when run alone, also when  *)
(* calls are handed the same mapping object.                               *)
(***************************************************************************)
C5_EveryInterleavingAsAlone ==
  \A i \in 1..NThreads :
    threads[i].pc = "done" =>
      /\ threads[i].out.ok
      /\ threads[i].out = Alone(orig[threads[i].root])

(***************************************************************************)
(* C5 as amended: in every interleaving, a call whose mapping object is    *)
(* handed to no other call, or whose mapping holds no non-UTF-8            *)
(* byte-string value for the walk to replace, returns without an error the *)
(* text it returns when run alone; calls repairing one mapping object can  *)
(* fail, and then with UnicodeEncodeError.                                 *)
(***************************************************************************)
C5_AsAloneOnOwnObject ==
  \A i \in 1..NThreads :
    threads[i].pc = "done" =>
      /\ (OwnObject(i) \/ ~HasWalkedBadStr(orig[threads[i].root])) =>
           /\ threads[i].out.ok
           /\ threads[i].out = Alone(orig[threads[i].root])
      /\ threads[i].out.ok => threads[i].out = Alone(orig[threads[i].root])
      /\ ~threads[i].out.ok => threads[i].out.err = "UnicodeEncodeError"

\* two calls, each on its own copy of {'a': {'b': '\xd3'}}, have both
\* returned the repaired text
C5_Witness ==
  /\ orig[1] = Dict(<<Item(KeyA, Dict(<<Item(KeyB, Str(<<211>>))>>))>>)
  /\ threads[1].root # threads[2].root
  /\ \A i \in 1..2 :
       /\ threads[i].pc = "done"
       /\ threads[i].out.ok
       /\ threads[i].out.text =
            <<"{", "\"", "a", "\"", ":", " ", "{", "\"", "b", "\"", ":", " ",
              "\"", "\\", "u", "0", "0", "d", "3", "\"", "}", "}">>

=============================================================================
